---- MODULE Spec2Model ----
(***************************************************************************)
(* A model of patcher.py: the patch-set lifecycle of a multi-repository    *)
(* tree.  The state is the file system (the patches root, every project's  *)
(* source directory and git state, the index document) together with the   *)
(* position of the running command; every command line invocation is      *)
(* main(): discover_projects(), then one of init / rebuild / apply.        *)
(***************************************************************************)
EXTENDS Integers, Sequences, FiniteSets, TLC

(* ------------------------------ bounds -------------------------------- *)

\* number of command line invocations in one behaviour
MaxRuns == 2

(* ----------------------------- universe ------------------------------- *)

None == "None"

\* the project directories that may exist under the patches root
Names == {"a/b", "a/c"}
\* a name given on the command line that is no directory of the tree
Unknown == "zzz"
\* the patches root itself, as os.walk yields it first
Root == "."
\* the order in which `repo forall` prints the projects of the manifest
ManifestOrder == <<"a/b", "a/c">>

\* commits a project may carry over its upstream revision:
\* a subject line and an optional "Feature: <tag>" line in the message
Commit1 == [subject |-> "s1", feature |-> "auth"]
Commit2 == [subject |-> "s2", feature |-> None]

(* --------------------------- sequences -------------------------------- *)

Range(s) == {s[i] : i \in DOMAIN s}

\* every order in which os.listdir / os.walk may enumerate the set S
Orders(S) ==
    {s \in [1..Cardinality(S) -> S] : \A i, j \in 1..Cardinality(S) : i # j => s[i] # s[j]}

RECURSIVE Count(_, _)
Count(s, x) ==
    IF s = <<>> THEN 0 ELSE (IF Head(s) = x THEN 1 ELSE 0) + Count(Tail(s), x)

(* ------------------------ files and patch text ------------------------ *)

\* a file name: number prefix, slug, extension ("0001-s1.patch", ".keep")
KeepName == [num |-> 0, slug |-> ".keep", ext |-> ""]
PatchName(n, c) == [num |-> n, slug |-> c.subject, ext |-> "patch"]
EndsWithPatch(f) == f.ext = "patch"

\* the text of a file is a sequence of lines <<prefix, rest>>
SubjectPrefix == "Subject: [PATCH] "
FeaturePrefix == "Feature: "
EmptyText == <<>>

\* git format-patch --zero-commit --no-numbered --no-stat --no-signature:
\* the text written for one commit
PatchText(c) ==
    <<<<"From ", "0000000000000000000000000000000000000000">>,
      <<SubjectPrefix, c.subject>>>>
    \o (IF c.feature # None THEN <<<<FeaturePrefix, c.feature>>>> ELSE <<>>)
    \o <<<<"diff --git ", c.subject>>>>

\* the files git format-patch -o <dir> <upstream> writes: one per commit,
\* numbered in commit order
FormatPatch(history) ==
    [f \in {PatchName(i, history[i]) : i \in DOMAIN history} |->
        PatchText(history[f.num])]

\* re.search(prefix + "(.+)$", text, re.MULTILINE): group(1) of the first
\* line that matches, None when no line does
Search(prefix, text) ==
    LET hits == {i \in DOMAIN text : text[i][1] = prefix /\ text[i][2] # ""}
    IN  IF hits = {} THEN None
        ELSE text[CHOOSE i \in hits : \A j \in hits : i <= j][2]

\* git am reads a file as a mail: it needs the From and Subject headers
IsMail(text) ==
    /\ \E i \in DOMAIN text : text[i][1] = "From "
    /\ Search(SubjectPrefix, text) # None

\* the commit git am creates from a patch file
AmCommit(text) ==
    [subject |-> Search(SubjectPrefix, text), feature |-> Search(FeaturePrefix, text)]

(* ------------------------------- state -------------------------------- *)

VARIABLES
    src,          \* src[p]: the source directory top/p: "missing", "plain" (a directory without .git) or "git"
    dir,          \* dir[p]: the files of the patches directory of p, a function from file names to text
    commits,      \* commits[p]: the local commits of p over its upstream revision, oldest first
    dirty,        \* dirty[p]: git status --porcelain of p is non-empty
    rebaseApply,  \* rebaseApply[p]: top/p/.git/rebase-apply exists
    onBranch,     \* onBranch[p]: p is checked out on the tracking branch "diamondaosp"
    pinned,       \* pinned[p]: repo forall prints a revision ($REPO_LREV) for p
    readme,       \* the index document README.md: [exists, sections]
    pc,           \* position of the program: "idle", "dispatch", "rebuild", "apply", "exit"
    runs,         \* invocations started so far
    func,         \* args.func of the invocation: "init", "rebuild", "apply" ("none" before dispatch)
    registry,     \* projects: the names discover_projects() returned, in insertion order
    printed,      \* the messages discover_projects() printed, in order
    argv,         \* args.project of the running rebuild / apply
    targets,      \* get_target_projects(projects, args.project)
    outcome,      \* one record per loop iteration done: the project, how it ended, the commands issued
    error,        \* the exception that ended the invocation, "none" when none
    abandon,      \* [called, args, tracked]: the arguments of the repo abandon call and the lines repo forall printed
    last,         \* last[p]: what the latest rebuild of p extracted: [done, history, files]
    prev          \* prev[p]: the value of last[p] before the latest rebuild of p

world == <<src, dir, commits, dirty, rebaseApply, onBranch, pinned, readme>>
run == <<pc, runs, func, registry, printed, argv, targets, outcome, error, abandon>>
ghost == <<last, prev>>
vars == <<src, dir, commits, dirty, rebaseApply, onBranch, pinned, readme,
          pc, runs, func, registry, printed, argv, targets, outcome, error, abandon, last, prev>>

(* ----------------------------- discovery ------------------------------ *)

\* the source directory top/<relative path>; the tree root holds .repo, not .git
SrcKind(d) == IF d = Root THEN "plain" ELSE IF d \in Names THEN src[d] ELSE "missing"

\* the files os.walk reports directly in the directory d of the patches root
FilesOf(d) == IF d = Root THEN (IF readme.exists THEN {"README.md"} ELSE {}) ELSE DOMAIN dir[d]

\* ensure_dir_is_valid without its second test
NoGitCheckMessage(d) ==
    IF SrcKind(d) = "missing" THEN <<<<"doesn't exist", d>>>> ELSE <<>>

\* ensure_dir_is_valid: what it prints, nothing when it returns True
InvalidDirMessage(d) ==
    IF SrcKind(d) = "missing" THEN <<<<"doesn't exist", d>>>>
    ELSE IF SrcKind(d) = "plain" THEN <<<<"isn't a git repo", d>>>>
    ELSE <<>>

EnsureDirIsValid(d) == InvalidDirMessage(d) = <<>>

\* discover_projects over the directories in the order os.walk yields them
RECURSIVE DiscoverProjects(_)
DiscoverProjects(walk) ==
    IF walk = <<>> THEN [projects |-> <<>>, printed |-> <<>>]
    ELSE LET d == Head(walk)
             rest == DiscoverProjects(Tail(walk))
         IN  IF d = Root THEN rest
             ELSE IF Cardinality(FilesOf(d)) <= 0 THEN rest
             ELSE IF ~EnsureDirIsValid(d)
                  THEN [rest EXCEPT !.printed = InvalidDirMessage(d) \o @]
             ELSE [rest EXCEPT !.projects = <<d>> \o @]

\* os.walk, top-down: the root first, then its subdirectories in listdir order
WalkOrders == {<<Root>> \o o : o \in Orders(Names)}

\* get_target_projects
GetTargetProjects(projects, names) ==
    IF names # <<>>
    THEN SelectSeq(names, LAMBDA n : n \in Range(projects))
    ELSE projects

(* ------------------------------ the index ----------------------------- *)

\* the (project, file) pairs update_readme reads, in order: the projects in
\* registry order, the files of each in the order listing[p] (os.listdir)
RECURSIVE ReadOrder(_, _)
ReadOrder(projects, listing) ==
    IF projects = <<>> THEN <<>>
    ELSE LET p == Head(projects)
         IN  [i \in 1..Len(listing[p]) |->
                 [project |-> p, file_name |-> listing[p][i], text |-> dir[p][listing[p][i]]]]
             \o ReadOrder(Tail(projects), listing)

\* Patch(project, file_name, feature, message) of one file read
PatchOf(r) ==
    [project |-> r.project, file_name |-> r.file_name,
     feature |-> Search(FeaturePrefix, r.text),
     message |-> Search(SubjectPrefix, r.text)]

\* features.setdefault(feature, []).append(patch) on an insertion-ordered dict,
\* kept as a sequence of [feature, patches]
SetDefaultAppend(features, patch) ==
    IF \E i \in DOMAIN features : features[i].feature = patch.feature
    THEN [i \in DOMAIN features |->
            IF features[i].feature = patch.feature
            THEN [features[i] EXCEPT !.patches = Append(@, patch)]
            ELSE features[i]]
    ELSE Append(features, [feature |-> patch.feature, patches |-> <<patch>>])

RECURSIVE CollectFeatures(_, _)
CollectFeatures(reads, features) ==
    IF reads = <<>> THEN features
    ELSE CollectFeatures(Tail(reads), SetDefaultAppend(features, PatchOf(Head(reads))))

\* write_feature: a section of the index
Section(title, patches) ==
    [title |-> title,
     entries |-> [i \in DOMAIN patches |->
        [project |-> patches[i].project, message |-> patches[i].message,
         path |-> <<patches[i].project, patches[i].file_name>>]]]

\* the local `miscellaneous` after the loop over features.items(): bound only
\* when the key None is in the dict
MiscBound(features) == \E i \in DOMAIN features : features[i].feature = None

\* update_readme: the document it leaves and the exception it raises
UpdateReadme(projects, listing) ==
    LET reads == ReadOrder(projects, listing)
        features == CollectFeatures(reads, <<>>)
        tagged == SelectSeq(features, LAMBDA e : e.feature # None)
        misc == SelectSeq(features, LAMBDA e : e.feature = None)
        sections == [i \in DOMAIN tagged |-> Section(tagged[i].feature, tagged[i].patches)]
    IN  IF ~readme.exists THEN [readme |-> readme, error |-> "none"]
        ELSE IF \E i \in DOMAIN reads : Search(SubjectPrefix, reads[i].text) = None
             THEN [readme |-> readme, error |-> "AttributeError"]
        ELSE IF ~MiscBound(features)
             THEN [readme |-> [exists |-> TRUE, sections |-> sections],
                   error |-> "UnboundLocalError"]
        ELSE [readme |-> [exists |-> TRUE,
                          sections |-> sections \o <<Section("miscellaneous", misc[1].patches)>>],
              error |-> "none"]

(* ------------------------------ main() -------------------------------- *)

NoAbandon == [called |-> FALSE, args |-> <<>>, tracked |-> <<>>]
NoExtract == [done |-> FALSE, history |-> <<>>, files |-> <<>>]

\* the directory init may be given, and the lists of project names a rebuild
\* or apply may be given (the empty list: every registered project)
ArgNames == Names \cup {Unknown}
ArgLists == UNION {Orders(S) : S \in SUBSET Names}

\* the record of one loop iteration: the project, how the iteration ended, the
\* git and repo commands it issued, and whether the tree was dirty when it began
Step(p, result, ops) ==
    [project |-> p, result |-> result, ops |-> ops,
     dirty |-> IF p \in Names THEN dirty[p] ELSE FALSE]

\* main(), first line: projects = discover_projects()
Main ==
    /\ pc \in {"idle", "exit"}
    /\ runs < MaxRuns
    /\ \E walk \in WalkOrders :
          LET found == DiscoverProjects(walk)
          IN  /\ registry' = found.projects
              /\ printed' = found.printed
    /\ pc' = "dispatch"
    /\ runs' = runs + 1
    /\ func' = "none"
    /\ argv' = <<>>
    /\ targets' = <<>>
    /\ outcome' = <<>>
    /\ error' = "none"
    /\ abandon' = NoAbandon
    /\ UNCHANGED <<world, ghost>>

\* init(projects, args), args.project naming the directory top/name
InitProject(name) ==
    /\ pc = "dispatch"
    /\ pc' = "exit"
    /\ func' = "init"
    /\ IF ~EnsureDirIsValid(name)
       THEN /\ outcome' = <<Step(name, "invalid", <<>>)>>
            /\ UNCHANGED <<dir, onBranch>>
       ELSE /\ dir' = IF name \notin Range(registry) /\ KeepName \notin DOMAIN dir[name]
                      THEN [dir EXCEPT ![name] = (KeepName :> EmptyText) @@ @]
                      ELSE dir
            /\ onBranch' = [onBranch EXCEPT ![name] = TRUE]
            /\ outcome' = <<Step(name, "init", <<"config", "start">>)>>
    /\ UNCHANGED <<src, commits, dirty, rebaseApply, pinned, readme,
                   runs, registry, printed, argv, targets, error, abandon, ghost>>

(* ------------------------------ rebuild ------------------------------- *)

\* the file removal of rebuild without the '.patch' test
RemoveKeepOnly(files) ==
    [f \in {g \in DOMAIN files : ~(g = KeepName)} |-> files[f]]

\* rebuild, the removal loop: what is left of the patches directory
RemoveOld(files) ==
    [f \in {g \in DOMAIN files : ~(EndsWithPatch(g) \/ g = KeepName)} |-> files[f]]

\* rebuild, removal and git format-patch -o patches_dir upstream_revision
Rebuilt(files, history) == FormatPatch(history) @@ RemoveOld(files)

PatchFiles(files) == [f \in {g \in DOMAIN files : EndsWithPatch(g)} |-> files[f]]

RebuildStart(names) ==
    /\ pc = "dispatch"
    /\ pc' = "rebuild"
    /\ func' = "rebuild"
    /\ argv' = names
    /\ targets' = GetTargetProjects(registry, names)
    /\ UNCHANGED <<world, runs, registry, printed, outcome, error, abandon, ghost>>

\* one iteration of the loop of rebuild.  get_upstream_revision raises on an
\* empty revision; the name it raises, Error, is defined nowhere: a NameError
RebuildProject ==
    /\ pc = "rebuild"
    /\ Len(outcome) < Len(targets)
    /\ LET p == targets[Len(outcome) + 1]
       IN  IF rebaseApply[p]
           THEN /\ outcome' = Append(outcome, Step(p, "unsupported", <<>>))
                /\ error' = "NotImplementedError"
                /\ pc' = "exit"
                /\ UNCHANGED <<dir, ghost>>
           ELSE IF ~pinned[p]
           THEN /\ outcome' = Append(outcome, Step(p, "unpinned", <<"forall">>))
                /\ error' = "NameError"
                /\ pc' = "exit"
                /\ UNCHANGED <<dir, ghost>>
           ELSE /\ dir' = [dir EXCEPT ![p] = Rebuilt(@, commits[p])]
                /\ outcome' = Append(outcome, Step(p, "rebuilt", <<"forall", "format-patch">>))
                /\ prev' = [prev EXCEPT ![p] = last[p]]
                /\ last' = [last EXCEPT ![p] =
                               [done |-> TRUE, history |-> commits[p],
                                files |-> PatchFiles(dir'[p])]]
                /\ UNCHANGED <<error, pc>>
    /\ UNCHANGED <<src, commits, dirty, rebaseApply, onBranch, pinned, readme,
                   runs, func, registry, printed, argv, targets, abandon>>

\* rebuild, after the loop: update_readme(projects)
RebuildReadme ==
    /\ pc = "rebuild"
    /\ Len(outcome) = Len(targets)
    /\ \E listing \in [Names -> UNION {Orders(DOMAIN dir[p]) : p \in Names}] :
          /\ \A p \in Names : listing[p] \in Orders(DOMAIN dir[p])
          /\ LET r == UpdateReadme(registry, listing)
             IN  /\ readme' = r.readme
                 /\ error' = r.error
    /\ pc' = "exit"
    /\ UNCHANGED <<src, dir, commits, dirty, rebaseApply, onBranch, pinned,
                   runs, func, registry, printed, argv, targets, outcome, abandon, ghost>>

(* ------------------------------- apply -------------------------------- *)

ApplyStart(names) ==
    /\ pc = "dispatch"
    /\ pc' = "apply"
    /\ func' = "apply"
    /\ argv' = names
    /\ targets' = GetTargetProjects(registry, names)
    /\ UNCHANGED <<world, runs, registry, printed, outcome, error, abandon, ghost>>

\* the dirty-tree test of apply without its effect
NeverDirty(p) == FALSE

\* git status --porcelain=v1 of the project is not the empty string
IsDirty(p) == dirty[p]

\* the commands apply issues on a project it does not skip, up to repo start
StartOps(p) ==
    <<"status">>
    \o (IF rebaseApply[p] THEN <<"am --abort">> ELSE <<>>)
    \o <<"config", "start", "forall">>

\* one iteration of the loop of apply.  git am takes the files in os.listdir
\* order and stops at the first it cannot apply: k of them become commits
ApplyProject ==
    /\ pc = "apply"
    /\ Len(outcome) < Len(targets)
    /\ LET p == targets[Len(outcome) + 1]
       IN  IF IsDirty(p)
           THEN /\ outcome' = Append(outcome, Step(p, "dirty", <<"status">>))
                /\ UNCHANGED <<commits, dirty, rebaseApply, onBranch, error, pc>>
           ELSE IF ~pinned[p]
           THEN /\ outcome' = Append(outcome, Step(p, "unpinned", StartOps(p)))
                /\ onBranch' = [onBranch EXCEPT ![p] = TRUE]
                /\ rebaseApply' = [rebaseApply EXCEPT ![p] = FALSE]
                /\ error' = "NameError"
                /\ pc' = "exit"
                /\ UNCHANGED <<commits, dirty>>
           ELSE \E patches \in Orders(DOMAIN dir[p]), k \in 0..Cardinality(DOMAIN dir[p]),
                   conflictMarkers \in BOOLEAN :
                /\ \A i \in 1..k : IsMail(dir[p][patches[i]])
                /\ k = Len(patches) => ~conflictMarkers
                /\ commits' = [commits EXCEPT ![p] = [i \in 1..k |-> AmCommit(dir[p][patches[i]])]]
                /\ onBranch' = [onBranch EXCEPT ![p] = TRUE]
                /\ rebaseApply' = [rebaseApply EXCEPT ![p] = (k < Len(patches))]
                /\ dirty' = [dirty EXCEPT ![p] = conflictMarkers]
                /\ IF k = Len(patches)
                   THEN /\ outcome' = Append(outcome,
                                Step(p, "applied", StartOps(p) \o <<"reset --keep", "am">>))
                        /\ UNCHANGED <<error, pc>>
                   ELSE /\ outcome' = Append(outcome,
                                Step(p, "conflict", StartOps(p) \o <<"reset --keep", "am">>))
                        /\ error' = "CalledProcessError"
                        /\ pc' = "exit"
    /\ UNCHANGED <<src, dir, pinned, readme, runs, func, registry, printed, argv, targets,
                   abandon, ghost>>

\* str.split("\n") of the output of repo forall, given as its lines
Split(lines) == IF lines = <<>> THEN <<"">> ELSE lines

\* the lines repo forall prints: the path of every project on the tracking branch
PatchedOutput == SelectSeq(ManifestOrder, LAMBDA p : onBranch[p])

\* list(filter(lambda p: not projects.get(p), patched_projects))
NoLongerPatched(patched) == SelectSeq(patched, LAMBDA p : p \notin Range(registry))

\* apply, after the loop: the reconciliation of a whole-tree run
ApplyReconcile ==
    /\ pc = "apply"
    /\ Len(outcome) = Len(targets)
    /\ pc' = "exit"
    /\ IF argv # <<>>
       THEN UNCHANGED <<commits, onBranch, abandon, error>>
       ELSE LET gone == NoLongerPatched(Split(PatchedOutput))
            IN  IF gone = <<>>
                THEN UNCHANGED <<commits, onBranch, abandon, error>>
                ELSE /\ abandon' = [called |-> TRUE, args |-> gone, tracked |-> PatchedOutput]
                     /\ onBranch' = [p \in Names |-> onBranch[p] /\ p \notin Range(gone)]
                     /\ commits' = [p \in Names |-> IF p \in Range(gone) THEN <<>> ELSE commits[p]]
                     /\ \E rc \in {0, 1} :
                           /\ rc = 1 => "" \in Range(gone)
                           /\ error' = IF rc = 0 THEN "none" ELSE "CalledProcessError"
    /\ UNCHANGED <<src, dir, dirty, rebaseApply, pinned, readme,
                   runs, func, registry, printed, argv, targets, outcome, ghost>>

(* --------------------------- specification ---------------------------- *)

\* what one project directory may look like before the first invocation:
\* no usable source directory,
Untracked ==
    {[src |-> "missing", dir |-> KeepName :> EmptyText, commits |-> <<>>, dirty |-> FALSE,
      rebaseApply |-> FALSE, onBranch |-> FALSE, pinned |-> FALSE],
     [src |-> "plain", dir |-> KeepName :> EmptyText, commits |-> <<>>, dirty |-> FALSE,
      rebaseApply |-> FALSE, onBranch |-> FALSE, pinned |-> FALSE]}

\* or a git working tree: its history, its patches directory, the state of
\* the tree ("clean", "dirty", or "am": left mid-apply) and its branch
Checkout(h, d, t, b) ==
    [src |-> "git", dir |-> d, commits |-> h, dirty |-> t = "dirty",
     rebaseApply |-> t = "am", onBranch |-> b, pinned |-> TRUE]
OldPatches == FormatPatch(<<Commit2, Commit1>>)
Checkouts ==
    {Checkout(<<>>, <<>>, "clean", FALSE),
     Checkout(<<>>, <<>>, "clean", TRUE),
     Checkout(<<>>, KeepName :> EmptyText, "clean", TRUE),
     Checkout(<<>>, OldPatches, "clean", FALSE),
     Checkout(<<>>, OldPatches, "dirty", FALSE),
     Checkout(<<Commit2>>, OldPatches, "am", TRUE),
     Checkout(<<Commit1>>, FormatPatch(<<Commit1>>), "clean", TRUE),
     Checkout(<<Commit1>>, OldPatches, "clean", TRUE),
     Checkout(<<Commit1, Commit2>>, FormatPatch(<<Commit1, Commit2>>), "clean", TRUE)}
\* or a git working tree the manifest pins to no revision
Unpinned == {[Checkout(<<>>, OldPatches, "clean", FALSE) EXCEPT !.pinned = FALSE]}

Profiles == Untracked \cup Checkouts \cup Unpinned

Init ==
    /\ \E w \in [Names -> Profiles] :
          /\ src = [p \in Names |-> w[p].src]
          /\ dir = [p \in Names |-> w[p].dir]
          /\ commits = [p \in Names |-> w[p].commits]
          /\ dirty = [p \in Names |-> w[p].dirty]
          /\ rebaseApply = [p \in Names |-> w[p].rebaseApply]
          /\ onBranch = [p \in Names |-> w[p].onBranch]
          /\ pinned = [p \in Names |-> w[p].pinned]
    /\ readme \in {[exists |-> e, sections |-> <<>>] : e \in BOOLEAN}
    /\ pc = "idle"
    /\ runs = 0
    /\ func = "none"
    /\ registry = <<>>
    /\ printed = <<>>
    /\ argv = <<>>
    /\ targets = <<>>
    /\ outcome = <<>>
    /\ error = "none"
    /\ abandon = NoAbandon
    /\ last = [p \in Names |-> NoExtract]
    /\ prev = [p \in Names |-> NoExtract]

Next ==
    \/ Main
    \/ \E name \in ArgNames : InitProject(name)
    \/ \E names \in ArgLists : RebuildStart(names)
    \/ RebuildProject
    \/ RebuildReadme
    \/ \E names \in ArgLists : ApplyStart(names)
    \/ ApplyProject
    \/ ApplyReconcile

Spec == Init /\ [][Next]_vars

(* ------------------------------ claims -------------------------------- *)

Destructive == {"am --abort", "reset --keep", "am"}

\* C1: in apply, a target whose git status is non-empty gets no am --abort, no
\* reset and no am, and the loop goes on: while a later target is left, the
\* program is still in the loop of apply with no exception raised, or has
\* already processed that target
C1_DirtyTreeGuard ==
    func = "apply" =>
        \A i \in DOMAIN outcome :
            outcome[i].dirty =>
                /\ Range(outcome[i].ops) \cap Destructive = {}
                /\ outcome[i].result = "dirty"
                /\ (i < Len(targets) =>
                        (Len(outcome) > i \/ (pc = "apply" /\ error = "none")))

\* a dirty target was skipped and the target after it was reset and applied
C1_Witness ==
    /\ func = "apply"
    /\ \E i \in DOMAIN outcome :
          /\ outcome[i].dirty
          /\ i < Len(outcome)
          /\ outcome[i + 1].result = "applied"

\* C2: when git am ends in a conflict on one target of apply (every file of
\* its patches directory being a patch), that project stays mid-apply and every
\* later target is still processed: the loop is not left
C2_ConflictIsolation ==
    func = "apply" =>
        \A i \in DOMAIN outcome :
            (/\ outcome[i].result = "conflict"
             /\ \A f \in DOMAIN dir[outcome[i].project] : IsMail(dir[outcome[i].project][f]))
            =>
                /\ rebaseApply[outcome[i].project]
                /\ (i < Len(targets) => (Len(outcome) > i \/ pc = "apply"))

\* C3: when one target of rebuild is mid-apply, rebuild fails for that project
\* only: every later target is still rebuilt
C3_RebuildIsolation ==
    func = "rebuild" =>
        \A i \in DOMAIN outcome :
            (outcome[i].result = "unsupported" /\ i < Len(targets)) =>
                (Len(outcome) > i \/ pc = "rebuild")

\* C4: after rebuild of a project with no local commit, its patches directory
\* holds exactly the placeholder, and discovery still finds the project
C4_PlaceholderAfterEmptyRebuild ==
    func = "rebuild" =>
        \A i \in DOMAIN outcome :
            (outcome[i].result = "rebuilt" /\ commits[outcome[i].project] = <<>>) =>
                /\ DOMAIN dir[outcome[i].project] = {KeepName}
                /\ \A walk \in WalkOrders :
                      outcome[i].project \in Range(DiscoverProjects(walk).projects)

\* C5: the projects passed to repo abandon are exactly those repo forall listed
\* on the tracking branch that are not registered; no registered project is
\* passed, and no call is made when that set is empty
C5_DriftReconciliation ==
    abandon.called =>
        /\ Range(abandon.args) = Range(abandon.tracked) \ Range(registry)
        /\ Range(abandon.args) \cap Range(registry) = {}
        /\ Range(abandon.tracked) \ Range(registry) # {}

\* the files update_readme reads, and the feature tag of each
IndexedFiles == UNION {{<<p, f>> : f \in DOMAIN dir[p]} : p \in Range(registry)}
TagOf(x) == Search(FeaturePrefix, dir[x[1]][x[2]])
PathsOf(section) == {section.entries[i].path : i \in DOMAIN section.entries}
ReadmeReached == func = "rebuild" /\ pc = "exit" /\ error \notin {"NotImplementedError", "NameError"}

\* C6: when the index is regenerated over one or more files that all have a
\* subject line, regeneration raises nothing, and the index has one section per feature tag
\* followed by a last section "miscellaneous" holding exactly the untagged patches
C6_FeatureGrouping ==
    (/\ ReadmeReached
     /\ readme.exists
     /\ IndexedFiles # {}
     /\ \A x \in IndexedFiles : Search(SubjectPrefix, dir[x[1]][x[2]]) # None)
    => /\ error = "none"
       /\ LET secs == readme.sections
          IN  /\ Len(secs) >= 1
              /\ secs[Len(secs)].title = "miscellaneous"
              /\ PathsOf(secs[Len(secs)]) = {x \in IndexedFiles : TagOf(x) = None}
              /\ \A i \in 1..(Len(secs) - 1) :
                    /\ PathsOf(secs[i]) = {x \in IndexedFiles : TagOf(x) = secs[i].title}
                    /\ \A j \in 1..(Len(secs) - 1) : secs[j].title = secs[i].title => j = i
              /\ \A x \in IndexedFiles :
                    TagOf(x) # None => \E i \in 1..(Len(secs) - 1) : secs[i].title = TagOf(x)

\* C7: after rebuild and then apply of a clean project whose patches apply, the
\* local commits are the sequence rebuild extracted, in the same order
C7_RoundTrip ==
    func = "apply" =>
        \A i \in DOMAIN outcome :
            (outcome[i].result = "applied" /\ last[outcome[i].project].done) =>
                commits[outcome[i].project] = last[outcome[i].project].history

\* C8: a rebuild leaves exactly one patch file per local commit, the i-th
\* holding the i-th commit (no patch file of an earlier extraction survives),
\* and a second rebuild of the same history leaves the same files with the
\* same text
C8_IdempotentExtraction ==
    \A p \in Names :
        last[p].done =>
            /\ Cardinality(DOMAIN last[p].files) = Len(last[p].history)
            /\ \A f \in DOMAIN last[p].files :
                  /\ f.num \in 1..Len(last[p].history)
                  /\ AmCommit(last[p].files[f]) = last[p].history[f.num]
            /\ (prev[p].done /\ prev[p].history = last[p].history) =>
                  prev[p].files = last[p].files

\* a project with local commits was rebuilt twice over the same history
C8_Witness ==
    \E p \in Names :
        /\ prev[p].done
        /\ last[p].done
        /\ prev[p].history = last[p].history
        /\ Len(last[p].history) >= 1
        /\ runs = 2

\* the candidates of a walk: the directories under the root that hold a file
Candidates == {p \in Names : DOMAIN dir[p] # {}}
Reports(d) == Count(printed, <<"doesn't exist", d>>) + Count(printed, <<"isn't a git repo", d>>)

\* C9: discover_projects returns exactly the directories under the patches
\* root that hold a file and whose source directory is a git working tree; it
\* reports every other candidate once, and nothing else
C9_DiscoveryCorrectness ==
    pc = "dispatch" =>
        /\ Range(registry) = {p \in Candidates : src[p] = "git"}
        /\ Len(registry) = Cardinality(Range(registry))
        /\ \A d \in Names \cup {Root} :
              Reports(d) = IF d \in Candidates /\ src[d] # "git" THEN 1 ELSE 0
        /\ Len(printed) = Cardinality({p \in Candidates : src[p] # "git"})

\* one candidate was reported and excluded, another was registered
C9_Witness ==
    /\ pc = "dispatch"
    /\ \E p, q \in Names :
          /\ Reports(p) = 1
          /\ registry = <<q>>
          /\ readme.exists

\* C10: with a placeholder in a registered patches directory, every patch file
\* having a subject line and one of them untagged, regeneration of the index
\* raises nothing and the placeholder has no entry in the index
C10_PlaceholderNotIndexed ==
    (/\ ReadmeReached
     /\ readme.exists
     /\ \E x \in IndexedFiles : x[2] = KeepName
     /\ \A x \in IndexedFiles : EndsWithPatch(x[2]) => Search(SubjectPrefix, dir[x[1]][x[2]]) # None
     /\ \E x \in IndexedFiles : EndsWithPatch(x[2]) /\ TagOf(x) = None)
    => /\ error = "none"
       /\ \A i \in DOMAIN readme.sections :
             \A x \in PathsOf(readme.sections[i]) : x[2] # KeepName

====
